---- MODULE Spec2Model ----
(***************************************************************************)
(* CameraScreen (src/src/screens/image/CameraScreen.js): the capture /     *)
(* pick / process / upload pipeline of one screen instance, its operation  *)
(* flags, the 5 s safety timer and the focus / blur resets.                *)
(*                                                                         *)
(* Rendering is synchronous with every handler step: a state setter called *)
(* by a step is visible to the next step, and the effect hooks whose       *)
(* dependencies changed have run by then.  Promises (picker, resize,       *)
(* upload request, permission request) are in flight between the step     *)
(* that starts them and the step that runs their continuation.             *)
(***************************************************************************)
EXTENDS Integers, Sequences, FiniteSets, Bags, TLC

VARIABLES
    capturedImage,     \* useState(null): the asset shown in the preview
    loading,           \* useState(false)
    processingImage,   \* useState(false)
    isNavigating,      \* useState(false)
    uploadingRef,      \* useRef(false)
    timer,             \* navigationTimeoutRef: TRUE while a safety timeout is pending
    mounted,           \* mountedRef
    focused,           \* whether the screen has the navigation focus
    folderId,          \* route.params.folderId is present
    perm,              \* progress of requestPermissions
    pickers,           \* launchCameraAsync / launchImageLibraryAsync promises in flight
    manips,            \* manipulateAsync promises in flight (a bag of resize requests)
    uploads,           \* imageApi.uploadImage promises in flight (a bag of assets)
    navigations,       \* navigation.replace / goBack calls issued by the handlers so far
    out,               \* what the last step showed, navigated to and returned
    \* AuthProvider, AppNavigator and the API client
    user,              \* AuthProvider useState(null); "" is null
    token,             \* AuthProvider useState(null); "" is null
    authLoading,       \* AuthProvider useState(true): its loading flag
    secureToken,       \* SecureStore item 'token'; "" is no item
    alreadyLaunched,   \* AsyncStorage holds the key 'alreadyLaunched'
    isFirstLaunch,     \* AppNavigator useState(null): "null", "true" or "false"
    calls,             \* async functions of the provider / navigator at an await (a bag)
    \* FolderDetailScreen and ImageDetailScreen
    folder,            \* FolderDetailScreen useState(null)
    image,             \* ImageDetailScreen useState(null)
    imageMounted,      \* isMounted of ImageDetailScreen's fetch effect
    requests,          \* requests of the detail screens in flight (a bag)
    \* FoldersScreen and TrashScreen
    foldersScreen,     \* FoldersScreen's useState values, by name
    folderCalls,       \* fetchFolders / handleCreateFolder at their await (a bag)
    trashScreen,       \* TrashScreen's useState values, by name
    trashCalls         \* TrashScreen's async functions and open alerts (a bag)

cameraVars == <<capturedImage, loading, processingImage, isNavigating, uploadingRef,
                timer, mounted, focused, folderId, perm, pickers, manips, uploads,
                navigations>>

authVars == <<user, token, authLoading, secureToken, alreadyLaunched, isFirstLaunch,
              calls>>

detailVars == <<folder, image, imageMounted, requests>>

listVars == <<foldersScreen, folderCalls, trashScreen, trashCalls>>

vars == <<cameraVars, out, authVars, detailVars, listVars>>

----------------------------------------------------------------------------
(* Program constants                                                       *)

MAX_IMAGE_SIZE == 1900000
MAX_DIMENSION == 1200
DefaultDimension == 1000
SizeTier5MB == 5000000
SizeTier3MB == 3000000

(* Bounds of the model                                                     *)

MaxCaptures == 2      \* capture / pick operations in flight at once
MaxUploads == 2       \* upload requests in flight at once
MaxNavigations == 1   \* navigation calls counted (the count stops there)

----------------------------------------------------------------------------
(* Assets.  A missing fileSize, width or height is 0 (falsy in the code).  *)

Asset(u, s, w, h) == [uri |-> u, fileSize |-> s, width |-> w, height |-> h]

NoAsset == Asset("", 0, 0, 0)

IsNull(a) == a.uri = ""

\* Assets the pickers deliver in the concurrency specification.
Assets ==
    { Asset("small.jpg", 500000, 800, 600),
      Asset("large.jpg", 6000000, 4000, 3000),
      Asset("unsized.jpg", 0, 0, 0) }

\* fileSize values the resize operation reports (0: it reports none).
Reported == {0}

\* Assets and reported sizes of the processing specification: the values
\* around every threshold of processImage.
ProcSizes == {0, 1, 1899999, 1900000, 1900001, 3000000, 3000001, 5000000, 5000001, 12000000}

ProcDims == {0, 1, 2, 599, 1199, 1200, 1201, 1799, 2400, 2401, 3000, 4032}

ProcAssets == {Asset("picked.jpg", s, w, h) : s \in ProcSizes, w \in ProcDims, h \in ProcDims}

ProcReported == {0, 1, 151200, 1899999, 1900000, 12000001}

\* Picker results: null, { canceled: true }, { assets: [] }, { assets: [a] },
\* the legacy shape { uri, ... } and a result with neither assets nor uri.
ResultKinds == {"null", "canceled", "empty", "assets", "legacy", "unrecognized"}

PickerKinds == {"camera", "library"}

UploadStatuses == {413, 500}

----------------------------------------------------------------------------
(* processImage: the pure part                                             *)

\* Math.round(n / d) for n >= 0, d > 0: halves round up.
Round(n, d) == (2 * n + d) \div (2 * d)

\* Quality with the tiers starting at their thresholds (>= for >).
QualityInclusive(fileSize) ==
    IF fileSize >= SizeTier5MB THEN 50
    ELSE IF fileSize >= SizeTier3MB THEN 60
    ELSE 70

\* Lines 225-232; the quality in hundredths.
Quality(fileSize) ==
    IF fileSize > SizeTier5MB THEN 50
    ELSE IF fileSize > SizeTier3MB THEN 60
    ELSE 70

\* ResizeDims with Math.floor in place of Math.round.
ResizeDimsFloor(a) ==
    LET width == IF a.width # 0 THEN a.width ELSE DefaultDimension
        height == IF a.height # 0 THEN a.height ELSE DefaultDimension
    IN  IF width > height /\ width > MAX_DIMENSION
        THEN [width |-> MAX_DIMENSION, height |-> (height * MAX_DIMENSION) \div width]
        ELSE IF height > MAX_DIMENSION
        THEN [width |-> (width * MAX_DIMENSION) \div height, height |-> MAX_DIMENSION]
        ELSE [width |-> width, height |-> height]

\* ResizeDims that scales the wider-than-tall only.
ResizeDimsWidthOnly(a) ==
    LET width == IF a.width # 0 THEN a.width ELSE DefaultDimension
        height == IF a.height # 0 THEN a.height ELSE DefaultDimension
    IN  IF width > height /\ width > MAX_DIMENSION
        THEN [width |-> MAX_DIMENSION, height |-> Round(height * MAX_DIMENSION, width)]
        ELSE [width |-> width, height |-> height]

\* ResizeDims whose second branch is taken by the strictly taller only.
ResizeDimsStrict(a) ==
    LET width == IF a.width # 0 THEN a.width ELSE DefaultDimension
        height == IF a.height # 0 THEN a.height ELSE DefaultDimension
    IN  IF width > height /\ width > MAX_DIMENSION
        THEN [width |-> MAX_DIMENSION, height |-> Round(height * MAX_DIMENSION, width)]
        ELSE IF height > width /\ height > MAX_DIMENSION
        THEN [width |-> Round(width * MAX_DIMENSION, height), height |-> MAX_DIMENSION]
        ELSE [width |-> width, height |-> height]

\* Lines 235-244.
ResizeDims(a) ==
    LET width == IF a.width # 0 THEN a.width ELSE DefaultDimension
        height == IF a.height # 0 THEN a.height ELSE DefaultDimension
    IN  IF width > height /\ width > MAX_DIMENSION
        THEN [width |-> MAX_DIMENSION, height |-> Round(height * MAX_DIMENSION, width)]
        ELSE IF height > MAX_DIMENSION
        THEN [width |-> Round(width * MAX_DIMENSION, height), height |-> MAX_DIMENSION]
        ELSE [width |-> width, height |-> height]

\* EstimatedSize as the bytes of the uncompressed bitmap.
EstimatedSizeRaw(width, height, q) == width * height * 3

\* Line 257: Math.round(width * height * quality * 0.15), quality q in
\* hundredths; q * 0.15 / 100 is 3 * q / 2000.
EstimatedSize(width, height, q) == Round(width * height * 3 * q, 2000)

\* SmallEnough with the threshold taken in kilobytes.
SmallEnoughKB(a) == a.fileSize # 0 /\ a.fileSize < MAX_IMAGE_SIZE \div 1000

\* Line 218: the asset is returned as it is.
SmallEnough(a) == a.fileSize # 0 /\ a.fileSize < MAX_IMAGE_SIZE

\* The resize request of lines 249-253 for asset a.
ResizeRequest(a) ==
    [src |-> a, width |-> ResizeDims(a).width, height |-> ResizeDims(a).height,
     quality |-> Quality(a.fileSize)]

\* Lines 255-266: the asset made from the result of the resize operation;
\* reported is the fileSize the operation reports, 0 when it reports none.
ManipResult(m, reported) ==
    Asset("resized",
          IF reported = 0 THEN EstimatedSize(m.width, m.height, m.quality) ELSE reported,
          m.width, m.height)

----------------------------------------------------------------------------
(* Hooks                                                                   *)

\* Line 96-98.
isOperationInProgress == loading \/ processingImage \/ isNavigating \/ uploadingRef

\* Lines 79-93, the safety timeout effect, run after a step that leaves the
\* flags n, l, p, the ref u and the timer handle t: when a dependency changed,
\* the previous cleanup clears the handle and the effect arms a new timeout
\* if any flag is set; otherwise the handle is as the step left it.
SafetyEffect(n, l, p, u, t) ==
    IF <<n, l, p>> # <<isNavigating, loading, processingImage>>
    THEN n \/ l \/ p \/ u
    ELSE t

\* What a step leaves in out: the handler or continuation that ran (op), the
\* asset and the number it was given (the picked asset, the asset of the
\* resize or upload request; the reported fileSize, the HTTP status), the
\* alerts it showed, the navigation it issued and what processImage returned.
Quiet(op, a, n) ==
    [op |-> op, asset |-> a, num |-> n, alerts |-> <<>>, nav |-> "none", ret |-> NoAsset]

\* The values of the other components while the camera screen is up: the
\* screen is in the Main stack, which AppNavigator shows only to a signed-in
\* user, and no detail screen is modelled beside it.
NoDTO == [present |-> FALSE, name |-> "", is_favorite |-> FALSE]

SignedIn ==
    /\ user = "ann"
    /\ token = "t1"
    /\ authLoading = FALSE
    /\ secureToken = "t1"
    /\ alreadyLaunched = TRUE
    /\ isFirstLaunch = "false"
    /\ calls = EmptyBag

NoDetailScreen ==
    /\ folder = NoDTO
    /\ image = NoDTO
    /\ imageMounted = FALSE
    /\ requests = EmptyBag

DefaultColor == "#FFC107"

\* src/src/screens/trash/TrashScreen.js lines 1728-1739: FoldersScreen's
\* initial state; the lists are sequences of folder ids.
FoldersScreenState ==
    [folders |-> <<>>, filteredFolders |-> <<>>, loading |-> TRUE,
     refreshing |-> FALSE, createDialogVisible |-> FALSE, newFolderName |-> "",
     newFolderColor |-> DefaultColor, error |-> "", isCreatingFolder |-> FALSE]

\* TrashScreen.js lines 126-132: TrashScreen's initial state; the lists are
\* sets of item ids (no step depends on their order) and error "" is null.
TrashScreenState ==
    [trashedFolders |-> {}, trashedImages |-> {}, loading |-> TRUE,
     refreshing |-> FALSE, error |-> ""]

NoListScreens ==
    /\ foldersScreen = FoldersScreenState
    /\ folderCalls = EmptyBag
    /\ trashScreen = TrashScreenState
    /\ trashCalls = EmptyBag

Init ==
    /\ SignedIn
    /\ NoDetailScreen
    /\ NoListScreens
    /\ capturedImage = NoAsset
    /\ loading = FALSE
    /\ processingImage = FALSE
    /\ isNavigating = FALSE
    /\ uploadingRef = FALSE
    /\ timer = FALSE
    /\ mounted = TRUE
    /\ focused = TRUE
    /\ folderId \in BOOLEAN
    /\ perm = "requesting"
    /\ pickers = [k \in PickerKinds |-> 0]
    /\ manips = EmptyBag
    /\ uploads = EmptyBag
    /\ navigations = 0
    /\ out = Quiet("mount", NoAsset, 0)

----------------------------------------------------------------------------
(* Steps                                                                   *)

\* The flags after a step, and the safety timeout effect that follows it.
Flags(n, l, p, u, t) ==
    /\ isNavigating' = n
    /\ loading' = l
    /\ processingImage' = p
    /\ uploadingRef' = u
    /\ timer' = SafetyEffect(n, l, p, u, t)

SameFlags == UNCHANGED <<isNavigating, loading, processingImage, uploadingRef, timer>>

\* Lines 64-76.
resetAllStates ==
    IF mounted THEN Flags(FALSE, FALSE, FALSE, FALSE, FALSE) ELSE SameFlags

Shows(o, text) == [o EXCEPT !.alerts = <<text>>]

Navigates(o, how) == [o EXCEPT !.nav = how]

Returns(o, a) == [o EXCEPT !.ret = a]

\* The navigation calls of uploadImage, handleCaptureCancel and
\* handleNavigateBack (lines 398, 441, 463, 465), counted after the step has
\* left its navigation in out.
NavCounted ==
    navigations' = IF out'.nav # "none" /\ out'.op # "permissionOK"
                      /\ navigations < MaxNavigations
                   THEN navigations + 1
                   ELSE navigations

CapturesInFlight == pickers["camera"] + pickers["library"] + BagCardinality(manips)

\* Lines 278-291 and 310-323: takePicture / pickImage up to the picker's await.
\* The buttons are those of the initial screen (no captured image).
Launch(kind, op) ==
    /\ mounted
    /\ IsNull(capturedImage)
    /\ IF isOperationInProgress
       THEN UNCHANGED pickers
       ELSE /\ CapturesInFlight < MaxCaptures
            /\ pickers' = [pickers EXCEPT ![kind] = @ + 1]
    /\ out' = Quiet(op, NoAsset, 0)
    /\ SameFlags
    /\ UNCHANGED <<capturedImage, mounted, focused, folderId, perm, manips, uploads>>
    /\ NavCounted
    /\ UNCHANGED <<authVars, detailVars, listVars>>

takePicture == Launch("camera", "takePicture")

pickImage == Launch("library", "pickImage")

\* PickerResolve whose processImage lacks the empty-assets test of line 195.
PickerResolveNoEmptyTest(kind, rk, a) ==
    LET e == Quiet(rk, IF rk \in {"assets", "legacy"} THEN a ELSE NoAsset, 0)
    IN  /\ pickers[kind] > 0
        /\ pickers' = [pickers EXCEPT ![kind] = @ - 1]
        /\ UNCHANGED <<mounted, focused, folderId, perm, uploads>>
        /\ out' = IF mounted /\ rk \in {"assets", "legacy"} /\ SmallEnough(a)
                  THEN Returns(e, a)
                  ELSE e
        /\ IF ~mounted
           THEN /\ SameFlags
                /\ UNCHANGED <<capturedImage, manips>>
           ELSE IF rk \in {"null", "canceled"}
           THEN /\ SameFlags
                /\ UNCHANGED <<capturedImage, manips>>
           ELSE IF rk \in {"empty", "unrecognized"}
           THEN /\ Flags(isNavigating, loading, FALSE, uploadingRef, timer)
                /\ UNCHANGED <<capturedImage, manips>>
           ELSE IF SmallEnough(a)
           THEN /\ Flags(isNavigating, loading, FALSE, uploadingRef, timer)
                /\ capturedImage' = a
                /\ UNCHANGED manips
           ELSE /\ Flags(isNavigating, loading, TRUE, uploadingRef, timer)
                /\ manips' = manips (+) SetToBag({ResizeRequest(a)})
                /\ UNCHANGED capturedImage
        /\ NavCounted
        /\ UNCHANGED <<authVars, detailVars, listVars>>

\* Lines 193-246 and 293-300: the picker resolves with a result of shape rk
\* carrying asset a; processImage runs up to its return or to the resize await.
PickerResolve(kind, rk, a) ==
    LET e == Quiet(rk, IF rk \in {"assets", "legacy"} THEN a ELSE NoAsset, 0)
    IN  /\ pickers[kind] > 0
        /\ pickers' = [pickers EXCEPT ![kind] = @ - 1]
        /\ UNCHANGED <<mounted, focused, folderId, perm, uploads>>
        /\ out' = IF mounted /\ rk \in {"assets", "legacy"} /\ SmallEnough(a)
                  THEN Returns(e, a)
                  ELSE e
        /\ IF ~mounted
           THEN /\ SameFlags
                /\ UNCHANGED <<capturedImage, manips>>
           ELSE IF rk \in {"null", "canceled", "empty"}
           THEN /\ SameFlags
                /\ UNCHANGED <<capturedImage, manips>>
           ELSE IF rk = "unrecognized"
           THEN /\ Flags(isNavigating, loading, FALSE, uploadingRef, timer)
                /\ UNCHANGED <<capturedImage, manips>>
           ELSE IF SmallEnough(a)
           THEN /\ Flags(isNavigating, loading, FALSE, uploadingRef, timer)
                /\ capturedImage' = a
                /\ UNCHANGED manips
           ELSE /\ Flags(isNavigating, loading, TRUE, uploadingRef, timer)
                /\ manips' = manips (+) SetToBag({ResizeRequest(a)})
                /\ UNCHANGED capturedImage
        /\ NavCounted
        /\ UNCHANGED <<authVars, detailVars, listVars>>

\* Lines 301-306 and 333-338: the picker rejects.
PickerReject(kind) ==
    LET e == Quiet("pickerReject", NoAsset, 0)
    IN  /\ pickers[kind] > 0
        /\ pickers' = [pickers EXCEPT ![kind] = @ - 1]
        /\ out' = IF ~mounted THEN e
                  ELSE IF kind = "camera" THEN Shows(e, "Failed to take picture")
                  ELSE Shows(e, "Failed to pick image from gallery")
        /\ SameFlags
        /\ UNCHANGED <<capturedImage, mounted, focused, folderId, perm, manips, uploads>>
        /\ NavCounted
        /\ UNCHANGED <<authVars, detailVars, listVars>>

\* Lines 255-266 and 297-300: the resize operation m resolves, reporting the
\* fileSize reported (0: none).
ManipResolve(m, reported) ==
    LET e == Quiet("manipResolve", m.src, reported)
    IN  /\ BagIn(m, manips)
        /\ manips' = manips (-) SetToBag({m})
        /\ UNCHANGED <<mounted, focused, folderId, perm, pickers, uploads>>
        /\ IF ~mounted
           THEN /\ out' = e
                /\ SameFlags
                /\ UNCHANGED capturedImage
           ELSE /\ out' = Returns(e, ManipResult(m, reported))
                /\ Flags(isNavigating, loading, FALSE, uploadingRef, timer)
                /\ capturedImage' = ManipResult(m, reported)
        /\ NavCounted
        /\ UNCHANGED <<authVars, detailVars, listVars>>

\* ManipReject without the reset of processingImage.
ManipRejectNoReset(m) ==
    /\ BagIn(m, manips)
    /\ manips' = manips (-) SetToBag({m})
    /\ UNCHANGED <<capturedImage, mounted, focused, folderId, perm, pickers, uploads>>
    /\ out' = IF mounted
              THEN Shows(Quiet("manipReject", m.src, 0), "Failed to process image")
              ELSE Quiet("manipReject", m.src, 0)
    /\ SameFlags
    /\ NavCounted
    /\ UNCHANGED <<authVars, detailVars, listVars>>

\* Lines 267-274: the resize operation m throws.
ManipReject(m) ==
    LET e == Quiet("manipReject", m.src, 0)
    IN  /\ BagIn(m, manips)
        /\ manips' = manips (-) SetToBag({m})
        /\ UNCHANGED <<capturedImage, mounted, focused, folderId, perm, pickers, uploads>>
        /\ IF ~mounted
           THEN /\ out' = e
                /\ SameFlags
           ELSE /\ out' = Shows(e, "Failed to process image")
                /\ Flags(isNavigating, loading, FALSE, uploadingRef, timer)
        /\ NavCounted
        /\ UNCHANGED <<authVars, detailVars, listVars>>

\* uploadImage without the folderId check.
uploadImageNoFolderCheck ==
    LET e == Quiet("uploadImage", capturedImage, 0)
    IN  /\ mounted
        /\ ~IsNull(capturedImage)
        /\ UNCHANGED <<capturedImage, mounted, focused, folderId, perm, pickers, manips>>
        /\ IF isOperationInProgress
           THEN /\ out' = e
                /\ SameFlags
                /\ UNCHANGED uploads
           ELSE /\ BagCardinality(uploads) < MaxUploads
                /\ out' = e
                /\ Flags(isNavigating, TRUE, processingImage, TRUE, timer)
                /\ uploads' = uploads (+) SetToBag({capturedImage})
        /\ NavCounted
        /\ UNCHANGED <<authVars, detailVars, listVars>>

\* Lines 342-376: uploadImage up to the request's await.  Save is a button
\* of the preview (a captured image is shown).
uploadImage ==
    LET e == Quiet("uploadImage", capturedImage, 0)
    IN  /\ mounted
        /\ ~IsNull(capturedImage)
        /\ UNCHANGED <<capturedImage, mounted, focused, folderId, perm, pickers, manips>>
        /\ IF IsNull(capturedImage)
           THEN /\ out' = Shows(e, "No image to upload")
                /\ SameFlags
                /\ UNCHANGED uploads
           ELSE IF ~folderId
           THEN /\ out' = Shows(e, "Folder ID is missing. Cannot upload image.")
                /\ SameFlags
                /\ UNCHANGED uploads
           ELSE IF isOperationInProgress
           THEN /\ out' = e
                /\ SameFlags
                /\ UNCHANGED uploads
           ELSE /\ BagCardinality(uploads) < MaxUploads
                /\ out' = e
                /\ Flags(isNavigating, TRUE, processingImage, TRUE, timer)
                /\ uploads' = uploads (+) SetToBag({capturedImage})
        /\ NavCounted
        /\ UNCHANGED <<authVars, detailVars, listVars>>

\* Lines 376-402: the upload request for asset a resolves.
UploadResolve(a) ==
    LET e == Quiet("uploadResolve", a, 0)
    IN  /\ BagIn(a, uploads)
        /\ uploads' = uploads (-) SetToBag({a})
        /\ UNCHANGED <<capturedImage, mounted, focused, folderId, perm, pickers, manips>>
        /\ IF ~mounted
           THEN /\ out' = e
                /\ SameFlags
           ELSE /\ out' = Navigates(e, "replace")
                /\ Flags(TRUE, loading, processingImage, uploadingRef, FALSE)
        /\ NavCounted
        /\ UNCHANGED <<authVars, detailVars, listVars>>

\* Lines 404-426: the upload request for asset a rejects with HTTP status st.
UploadReject(a, st) ==
    LET e == Quiet("uploadReject", a, st)
    IN  /\ BagIn(a, uploads)
        /\ uploads' = uploads (-) SetToBag({a})
        /\ UNCHANGED <<capturedImage, mounted, focused, folderId, perm, pickers, manips>>
        /\ IF ~mounted
           THEN /\ out' = e
                /\ SameFlags
           ELSE /\ out' = IF st = 413 THEN Shows(e, "Image Too Large")
                          ELSE Shows(e, "Upload Failed")
                /\ resetAllStates
        /\ NavCounted
        /\ UNCHANGED <<authVars, detailVars, listVars>>

\* Lines 430-449, called by the step that leaves e in out.
handleCaptureCancel(e) ==
    /\ UNCHANGED <<mounted, focused, folderId, perm, pickers, manips, uploads>>
    /\ IF isOperationInProgress
       THEN /\ out' = e
            /\ SameFlags
            /\ UNCHANGED capturedImage
       ELSE IF ~IsNull(capturedImage) /\ folderId
       THEN /\ out' = Navigates(e, "replace")
            /\ Flags(TRUE, loading, processingImage, uploadingRef, timer)
            /\ UNCHANGED capturedImage
       ELSE /\ out' = e
            /\ SameFlags
            /\ capturedImage' = NoAsset

\* Lines 452-467, called by the step that leaves e in out.
handleNavigateBack(e) ==
    /\ UNCHANGED <<capturedImage, mounted, focused, folderId, perm, pickers, manips, uploads>>
    /\ IF isOperationInProgress
       THEN /\ out' = e
            /\ SameFlags
       ELSE /\ out' = IF folderId THEN Navigates(e, "replace") ELSE Navigates(e, "goBack")
            /\ Flags(TRUE, loading, processingImage, uploadingRef, timer)

\* Line 505: Cancel in the preview.
CancelPress ==
    /\ mounted
    /\ ~IsNull(capturedImage)
    /\ handleCaptureCancel(Quiet("cancel", NoAsset, 0))
    /\ NavCounted
    /\ UNCHANGED <<authVars, detailVars, listVars>>

\* Lines 536 and 581: the back arrow and Cancel of the initial screen.
BackPress ==
    /\ mounted
    /\ IsNull(capturedImage)
    /\ handleNavigateBack(Quiet("back", NoAsset, 0))
    /\ NavCounted
    /\ UNCHANGED <<authVars, detailVars, listVars>>

\* onBackPress that navigates back whether or not an image is captured.
onBackPressAlwaysBack ==
    LET e == Quiet("hardwareBack", NoAsset, 0)
    IN  /\ mounted
        /\ focused
        /\ IF loading \/ processingImage \/ uploadingRef \/ isNavigating
           THEN /\ out' = e
                /\ SameFlags
                /\ UNCHANGED <<capturedImage, mounted, focused, folderId, perm,
                               pickers, manips, uploads>>
           ELSE handleNavigateBack(e)
        /\ NavCounted
        /\ UNCHANGED <<authVars, detailVars, listVars>>

\* Lines 121-158: the hardware back button, subscribed while focused.
onBackPress ==
    LET e == Quiet("hardwareBack", NoAsset, 0)
    IN  /\ mounted
        /\ focused
        /\ IF loading \/ processingImage \/ uploadingRef \/ isNavigating
           THEN /\ out' = e
                /\ SameFlags
                /\ UNCHANGED <<capturedImage, mounted, focused, folderId, perm,
                               pickers, manips, uploads>>
           ELSE IF ~IsNull(capturedImage)
           THEN handleCaptureCancel(e)
           ELSE handleNavigateBack(e)
        /\ NavCounted
        /\ UNCHANGED <<authVars, detailVars, listVars>>

\* TimerFire that also drops the requests in flight.
TimerFireAbort ==
    /\ timer
    /\ out' = Quiet("timer", NoAsset, 0)
    /\ resetAllStates
    /\ uploads' = EmptyBag
    /\ UNCHANGED <<capturedImage, mounted, focused, folderId, perm, pickers, manips>>
    /\ NavCounted
    /\ UNCHANGED <<authVars, detailVars, listVars>>

\* Lines 81-84: the safety timeout fires.
TimerFire ==
    /\ timer
    /\ out' = Quiet("timer", NoAsset, 0)
    /\ resetAllStates
    /\ UNCHANGED <<capturedImage, mounted, focused, folderId, perm, pickers, manips, uploads>>
    /\ NavCounted
    /\ UNCHANGED <<authVars, detailVars, listVars>>

\* Lines 101-108: the screen loses focus.
Blur ==
    /\ mounted
    /\ focused
    /\ focused' = FALSE
    /\ out' = Quiet("blur", NoAsset, 0)
    /\ resetAllStates
    /\ UNCHANGED <<capturedImage, mounted, folderId, perm, pickers, manips, uploads>>
    /\ NavCounted
    /\ UNCHANGED <<authVars, detailVars, listVars>>

\* Lines 111-118: the screen gains focus.
Focus ==
    /\ mounted
    /\ ~focused
    /\ focused' = TRUE
    /\ out' = Quiet("focus", NoAsset, 0)
    /\ Flags(FALSE, loading, processingImage, FALSE, timer)
    /\ UNCHANGED <<capturedImage, mounted, folderId, perm, pickers, manips, uploads>>
    /\ NavCounted
    /\ UNCHANGED <<authVars, detailVars, listVars>>

\* Lines 45-54 (and the cleanup of lines 86-91): the screen is unmounted.
Unmount ==
    /\ mounted
    /\ mounted' = FALSE
    /\ timer' = FALSE
    /\ out' = Quiet("unmount", NoAsset, 0)
    /\ UNCHANGED <<capturedImage, loading, processingImage, isNavigating, uploadingRef,
                   focused, folderId, perm, pickers, manips, uploads>>
    /\ NavCounted
    /\ UNCHANGED <<authVars, detailVars, listVars>>

\* Lines 168-190: requestPermissions, started on mount, ends with outcome o.
PermissionResolve(o) ==
    LET e == Quiet("permission", NoAsset, 0)
    IN  /\ perm = "requesting"
        /\ perm' = IF o = "denied" THEN "alert" ELSE o
        /\ out' = IF o = "denied" THEN Shows(e, "Permissions Required")
                  ELSE IF o = "failed" THEN Shows(e, "Failed to request camera permissions")
                  ELSE e
        /\ SameFlags
        /\ UNCHANGED <<capturedImage, mounted, focused, folderId, pickers, manips, uploads>>
        /\ NavCounted
        /\ UNCHANGED <<authVars, detailVars, listVars>>

\* Lines 179-182: OK on the 'Permissions Required' alert.
PermissionAlertOK ==
    /\ perm = "alert"
    /\ perm' = "dismissed"
    /\ out' = Navigates(Quiet("permissionOK", NoAsset, 0), "goBack")
    /\ IF mounted
       THEN Flags(TRUE, loading, processingImage, uploadingRef, timer)
       ELSE SameFlags
    /\ UNCHANGED <<capturedImage, mounted, focused, folderId, pickers, manips, uploads>>
    /\ NavCounted
    /\ UNCHANGED <<authVars, detailVars, listVars>>

----------------------------------------------------------------------------
(* The screen instance under every interleaving of its events              *)

Next ==
    \/ takePicture
    \/ pickImage
    \/ \E k \in PickerKinds, rk \in ResultKinds, a \in Assets : PickerResolve(k, rk, a)
    \/ \E k \in PickerKinds : PickerReject(k)
    \/ \E m \in BagToSet(manips), r \in Reported : ManipResolve(m, r)
    \/ \E m \in BagToSet(manips) : ManipReject(m)
    \/ uploadImage
    \/ \E a \in BagToSet(uploads) : UploadResolve(a)
    \/ \E a \in BagToSet(uploads), st \in UploadStatuses : UploadReject(a, st)
    \/ CancelPress
    \/ BackPress
    \/ onBackPress
    \/ TimerFire
    \/ Blur
    \/ Focus
    \/ Unmount
    \/ \E o \in {"granted", "denied", "failed"} : PermissionResolve(o)
    \/ PermissionAlertOK

Spec == Init /\ [][Next]_vars

\* The 5 s timeout fires unless it is cleared first.
LiveSpec == Spec /\ WF_vars(TimerFire)

----------------------------------------------------------------------------
(* processImage on one capture at a time, over every asset of ProcAssets   *)

ProcNext ==
    \/ CapturesInFlight = 0 /\ takePicture
    \/ CapturesInFlight = 0 /\ pickImage
    \/ \E k \in PickerKinds, rk \in {"assets", "legacy"}, a \in ProcAssets :
          PickerResolve(k, rk, a)
    \/ \E m \in BagToSet(manips), r \in ProcReported : ManipResolve(m, r)
    \/ \E m \in BagToSet(manips) : ManipReject(m)

ProcSpec == Init /\ [][ProcNext]_vars

----------------------------------------------------------------------------
(* AuthProvider (src/unnamed/part_006), the auth API                       *)
(* (src/src/services/api/auth.js), the interceptors of the API client      *)
(* (src/src/services/api/client.js) and AppNavigator                       *)
(* (src/src/navigation/TabNavigator.js).                                   *)
(*                                                                         *)
(* An async function waits in `calls` at each await; the step that runs    *)
(* its continuation is also the point at which the awaited storage         *)
(* operation takes effect.  The 401 handler's delete takes effect in the   *)
(* step that delivers the 401.                                             *)

Tokens == {"t1", "t2"}       \* tokens the server issues

Users == {"ann", "bob"}      \* users the server answers with

StoredAtLaunch == {"", "t1"} \* the 'token' item left by earlier launches

FailStatuses == {401, 500}   \* 500 stands for every failure but 401

MaxCalls == 2                \* login / register / logout calls in flight at once

Call(op, pc, usr, tok, was) ==
    [op |-> op, pc |-> pc, usr |-> usr, tok |-> tok, was |-> was]

AuthOut(op, result, usr, tok, hdr) ==
    [op |-> op, result |-> result, usr |-> usr, tok |-> tok, authorization |-> hdr]

\* The Authorization header set from the provider's token state.
AuthorizationFromState(stored) == IF token # "" THEN "Bearer " \o token ELSE ""

\* client.js lines 40-43; "" is no Authorization header.
Authorization(stored) == IF stored # "" THEN "Bearer " \o stored ELSE ""

\* AppNavigator that shows Onboarding on a first launch whoever is signed in.
AppScreenOnboardingFirst ==
    IF authLoading \/ isFirstLaunch = "null" THEN "none"
    ELSE IF isFirstLaunch = "true" THEN "Onboarding"
    ELSE IF user # "" THEN "Main"
    ELSE "Auth"

\* TabNavigator.js lines 281-295: what AppNavigator renders.
AppScreen ==
    IF authLoading \/ isFirstLaunch = "null" THEN "none"
    ELSE IF isFirstLaunch = "true" /\ user = "" THEN "Onboarding"
    ELSE IF user # "" THEN "Main"
    ELSE "Auth"

CameraAbsent ==
    /\ capturedImage = NoAsset
    /\ loading = FALSE
    /\ processingImage = FALSE
    /\ isNavigating = FALSE
    /\ uploadingRef = FALSE
    /\ timer = FALSE
    /\ mounted = FALSE
    /\ focused = FALSE
    /\ folderId = FALSE
    /\ perm = "requesting"
    /\ pickers = [k \in PickerKinds |-> 0]
    /\ manips = EmptyBag
    /\ uploads = EmptyBag
    /\ navigations = 0

LoadCall(pc) == Call("loadStoredToken", pc, "", "", <<>>)

CheckCall(pc) == Call("checkIfFirstLaunch", pc, "", "", <<>>)

\* The app at launch: both mount effects have started their async function.
AuthInit ==
    /\ user = ""
    /\ token = ""
    /\ authLoading = TRUE
    /\ secureToken \in StoredAtLaunch
    /\ alreadyLaunched \in BOOLEAN
    /\ isFirstLaunch = "null"
    /\ calls = SetToBag({LoadCall("getItem"), CheckCall("getItem")})
    /\ out = AuthOut("launch", "", "", "", "")
    /\ CameraAbsent
    /\ NoDetailScreen
    /\ NoListScreens

Starts(d) == calls' = calls (+) SetToBag({d})

Becomes(c, d) == calls' = (calls (-) SetToBag({c})) (+) SetToBag({d})

Ends(c) == calls' = calls (-) SetToBag({c})

AuthFrame == UNCHANGED <<cameraVars, detailVars, listVars>>

UserCallsInFlight ==
    LET S == {c \in BagToSet(calls) : c.op \in {"login", "register", "logout"}}
    IN  BagCardinality([c \in S |-> calls[c]])

\* part_006 lines 15-20 and 23-25: the stored token has been read.
loadStoredTokenRead ==
    /\ BagIn(LoadCall("getItem"), calls)
    /\ IF secureToken # ""
       THEN /\ token' = secureToken
            /\ Becomes(LoadCall("getItem"), LoadCall("interceptor"))
            /\ UNCHANGED authLoading
       ELSE /\ authLoading' = FALSE
            /\ Ends(LoadCall("getItem"))
            /\ UNCHANGED token
    /\ out' = AuthOut("loadStoredToken", "read", "", "", "")
    /\ UNCHANGED <<user, secureToken, alreadyLaunched, isFirstLaunch>>
    /\ AuthFrame

\* part_006 lines 21-25: reading the stored token failed.
loadStoredTokenReadFails ==
    /\ BagIn(LoadCall("getItem"), calls)
    /\ authLoading' = FALSE
    /\ Ends(LoadCall("getItem"))
    /\ out' = AuthOut("loadStoredToken", "readFailed", "", "", "")
    /\ UNCHANGED <<user, token, secureToken, alreadyLaunched, isFirstLaunch>>
    /\ AuthFrame

\* client.js lines 34-54: the request interceptor has read the token and
\* hands the request on.
Intercept(c) ==
    /\ c.pc = "interceptor"
    /\ Becomes(c, [c EXCEPT !.pc = "wire"])
    /\ out' = AuthOut("request", c.op, "", "", Authorization(secureToken))
    /\ UNCHANGED <<user, token, authLoading, secureToken, alreadyLaunched, isFirstLaunch>>
    /\ AuthFrame

\* The continuation of the caller of a rejected request: auth.js rethrows,
\* then part_006 lines 21-25 (loadStoredToken), 38-40 and 50-52 (login,
\* register: rethrown) or 63-68 (logout: state cleared, delete awaited).
Rejected(c) ==
    IF c.op = "loadStoredToken"
    THEN /\ authLoading' = FALSE
         /\ Ends(c)
         /\ out' = AuthOut("loadStoredToken", "userFetchFailed", "", "", "")
         /\ UNCHANGED <<user, token>>
    ELSE IF c.op = "logout"
    THEN /\ user' = ""
         /\ token' = ""
         /\ Becomes(c, [c EXCEPT !.pc = "deleteItemCatch"])
         /\ out' = AuthOut("logout", "apiFailed", "", "", "")
         /\ UNCHANGED authLoading
    ELSE /\ Ends(c)
         /\ out' = AuthOut(c.op, "threw", "", "", "")
         /\ UNCHANGED <<user, token, authLoading>>

\* client.js lines 55-60: the interceptor's read rejects and nothing is sent.
InterceptFails(c) ==
    /\ c.pc = "interceptor"
    /\ Rejected(c)
    /\ UNCHANGED <<secureToken, alreadyLaunched, isFirstLaunch>>
    /\ AuthFrame

\* client.js lines 92-121: an error response or no response.
RequestFails(c, st) ==
    /\ c.pc = "wire"
    /\ secureToken' = IF st = 401 THEN "" ELSE secureToken
    /\ Rejected(c)
    /\ UNCHANGED <<alreadyLaunched, isFirstLaunch>>
    /\ AuthFrame

\* A 2xx response: part_006 lines 18-19 and 23-25 (loadStoredToken), 33-36
\* and 45-48 (login, register), 58-62 (logout).
RequestSucceeds(c, u, t) ==
    /\ c.pc = "wire"
    /\ IF c.op = "loadStoredToken"
       THEN /\ user' = u
            /\ authLoading' = FALSE
            /\ Ends(c)
            /\ out' = AuthOut("loadStoredToken", "userFetched", u, "", "")
            /\ UNCHANGED token
       ELSE IF c.op = "logout"
       THEN /\ user' = ""
            /\ token' = ""
            /\ Becomes(c, [c EXCEPT !.pc = "deleteItem"])
            /\ out' = AuthOut("logout", "apiSucceeded", "", "", "")
            /\ UNCHANGED authLoading
       ELSE /\ user' = u
            /\ token' = t
            /\ Becomes(c, [c EXCEPT !.pc = "setItem", !.usr = u, !.tok = t])
            /\ out' = AuthOut(c.op, "responded", u, t, "")
            /\ UNCHANGED authLoading
    /\ UNCHANGED <<secureToken, alreadyLaunched, isFirstLaunch>>
    /\ AuthFrame

\* part_006 lines 36-37 and 48-49: the token is stored and the call returns.
setItemResolves(c) ==
    /\ c.pc = "setItem"
    /\ c.op \in {"login", "register"}
    /\ secureToken' = c.tok
    /\ Ends(c)
    /\ out' = AuthOut(c.op, "returned", c.usr, c.tok, "")
    /\ UNCHANGED <<user, token, authLoading, alreadyLaunched, isFirstLaunch>>
    /\ AuthFrame

\* part_006 lines 38-40 and 50-52: storing the token failed; rethrown.
setItemRejects(c) ==
    /\ c.pc = "setItem"
    /\ c.op \in {"login", "register"}
    /\ Ends(c)
    /\ out' = AuthOut(c.op, "threw", c.usr, c.tok, "")
    /\ UNCHANGED <<user, token, authLoading, secureToken, alreadyLaunched, isFirstLaunch>>
    /\ AuthFrame

\* deleteItemResolves that returns without the item having been deleted.
deleteItemResolvesKeeps(c) ==
    /\ c.pc \in {"deleteItem", "deleteItemCatch"}
    /\ Ends(c)
    /\ out' = AuthOut("logout", "returned", "", "", "")
    /\ UNCHANGED <<user, token, authLoading, secureToken, alreadyLaunched, isFirstLaunch>>
    /\ AuthFrame

\* part_006 lines 62 and 68: the token is deleted and handleLogout returns.
deleteItemResolves(c) ==
    /\ c.pc \in {"deleteItem", "deleteItemCatch"}
    /\ secureToken' = ""
    /\ Ends(c)
    /\ out' = AuthOut("logout", "returned", "", "", "")
    /\ UNCHANGED <<user, token, authLoading, alreadyLaunched, isFirstLaunch>>
    /\ AuthFrame

\* The delete rejects: in the try block the catch block runs (lines 63-68),
\* in the catch block handleLogout rejects.
deleteItemRejects(c) ==
    /\ c.pc \in {"deleteItem", "deleteItemCatch"}
    /\ IF c.pc = "deleteItem"
       THEN /\ user' = ""
            /\ token' = ""
            /\ Becomes(c, [c EXCEPT !.pc = "deleteItemCatch"])
            /\ out' = AuthOut("logout", "deleteFailed", "", "", "")
       ELSE /\ Ends(c)
            /\ out' = AuthOut("logout", "threw", "", "", "")
            /\ UNCHANGED <<user, token>>
    /\ UNCHANGED <<authLoading, secureToken, alreadyLaunched, isFirstLaunch>>
    /\ AuthFrame

\* part_006 lines 31-33 and 43-45 with auth.js lines 3-27: the sign-in and
\* sign-up forms belong to the Auth stack.
Submit(op) ==
    /\ AppScreen = "Auth"
    /\ UserCallsInFlight < MaxCalls
    /\ Starts(Call(op, "interceptor", "", "", <<user, token, secureToken>>))
    /\ out' = AuthOut(op, "called", "", "", "")
    /\ UNCHANGED <<user, token, authLoading, secureToken, alreadyLaunched, isFirstLaunch>>
    /\ AuthFrame

handleLogin == Submit("login")

handleRegister == Submit("register")

\* part_006 lines 55-62 with auth.js lines 29-36: the profile screens belong
\* to the Main stack.
handleLogout ==
    /\ AppScreen = "Main"
    /\ UserCallsInFlight < MaxCalls
    /\ IF token # ""
       THEN /\ Starts(Call("logout", "interceptor", "", "", <<>>))
            /\ UNCHANGED <<user, token>>
       ELSE /\ user' = ""
            /\ token' = ""
            /\ Starts(Call("logout", "deleteItem", "", "", <<>>))
    /\ out' = AuthOut("logout", "called", "", "", "")
    /\ UNCHANGED <<authLoading, secureToken, alreadyLaunched, isFirstLaunch>>
    /\ AuthFrame

\* TabNavigator.js lines 265-271: the 'alreadyLaunched' key has been read.
checkIfFirstLaunchRead ==
    /\ BagIn(CheckCall("getItem"), calls)
    /\ IF ~alreadyLaunched
       THEN /\ Becomes(CheckCall("getItem"), CheckCall("setItem"))
            /\ UNCHANGED isFirstLaunch
       ELSE /\ isFirstLaunch' = "false"
            /\ Ends(CheckCall("getItem"))
    /\ out' = AuthOut("checkIfFirstLaunch", "read", "", "", "")
    /\ UNCHANGED <<user, token, authLoading, secureToken, alreadyLaunched>>
    /\ AuthFrame

\* TabNavigator.js lines 267-268: the key is written.
checkIfFirstLaunchSet ==
    /\ BagIn(CheckCall("setItem"), calls)
    /\ alreadyLaunched' = TRUE
    /\ isFirstLaunch' = "true"
    /\ Ends(CheckCall("setItem"))
    /\ out' = AuthOut("checkIfFirstLaunch", "set", "", "", "")
    /\ UNCHANGED <<user, token, authLoading, secureToken>>
    /\ AuthFrame

\* TabNavigator.js lines 272-275: the read or the write rejects.
checkIfFirstLaunchFails(pc) ==
    /\ BagIn(CheckCall(pc), calls)
    /\ isFirstLaunch' = "false"
    /\ Ends(CheckCall(pc))
    /\ out' = AuthOut("checkIfFirstLaunch", "failed", "", "", "")
    /\ UNCHANGED <<user, token, authLoading, secureToken, alreadyLaunched>>
    /\ AuthFrame

AuthNext ==
    \/ loadStoredTokenRead
    \/ loadStoredTokenReadFails
    \/ \E c \in BagToSet(calls) : Intercept(c)
    \/ \E c \in BagToSet(calls) : InterceptFails(c)
    \/ \E c \in BagToSet(calls), st \in FailStatuses : RequestFails(c, st)
    \/ \E c \in BagToSet(calls), u \in Users, t \in Tokens : RequestSucceeds(c, u, t)
    \/ \E c \in BagToSet(calls) : setItemResolves(c)
    \/ \E c \in BagToSet(calls) : setItemRejects(c)
    \/ \E c \in BagToSet(calls) : deleteItemResolves(c)
    \/ \E c \in BagToSet(calls) : deleteItemRejects(c)
    \/ handleLogin
    \/ handleRegister
    \/ handleLogout
    \/ checkIfFirstLaunchRead
    \/ checkIfFirstLaunchSet
    \/ \E pc \in {"getItem", "setItem"} : checkIfFirstLaunchFails(pc)

AuthSpec == AuthInit /\ [][AuthNext]_vars

\* A step of loadStoredToken: the storage read and the user request settle.
loadStoredTokenStep ==
    \/ loadStoredTokenRead
    \/ loadStoredTokenReadFails
    \/ \E c \in BagToSet(calls) :
          /\ c.op = "loadStoredToken"
          /\ \/ Intercept(c)
             \/ InterceptFails(c)
             \/ \E st \in FailStatuses : RequestFails(c, st)
             \/ \E u \in Users, t \in Tokens : RequestSucceeds(c, u, t)

LiveAuthSpec == AuthSpec /\ WF_vars(loadStoredTokenStep)

----------------------------------------------------------------------------
(* FolderDetailScreen (src/src/screens/folder/FolderScreen.js) and         *)
(* ImageDetailScreen (src/src/screens/image/ImageDetailScreen.js), each    *)
(* opened with an id: the folder / image they hold across fetch, edit and  *)
(* toggle-favorite.  A DTO's name "" is a name the server omitted.         *)

DTO(n, fav) == [present |-> TRUE, name |-> n, is_favorite |-> fav]

ServerNames == {"", "Math"}

\* What a response's data can be; NoDTO is a response without data.
Responses == {NoDTO} \cup {DTO(n, f) : n \in ServerNames, f \in BOOLEAN}

EditNames == {"", " ", "Notes"}   \* what the edit dialog's name field holds

Trim(s) == IF s = " " THEN "" ELSE s

MaxRequests == 2                  \* requests of the detail screens in flight

Req(screen, fn) == [screen |-> screen, fn |-> fn]

DetailOut(op, result) == [op |-> op, result |-> result]

\* Both screens have mounted and their effects have started the first fetch.
DetailInit ==
    /\ folder = NoDTO
    /\ image = NoDTO
    /\ imageMounted = TRUE
    /\ requests = SetToBag({Req("folder", "fetch"), Req("image", "fetch")})
    /\ out = DetailOut("mount", "")
    /\ SignedIn
    /\ CameraAbsent
    /\ NoListScreens

DetailFrame == UNCHANGED <<cameraVars, authVars, listVars>>

Sends(r) ==
    /\ BagCardinality(requests) < MaxRequests
    /\ requests' = requests (+) SetToBag({r})

Settles(r) ==
    /\ BagIn(r, requests)
    /\ requests' = requests (-) SetToBag({r})

\* The name fallback of the fetches.
Named(data, fallback) == [data EXCEPT !.name = IF data.name = "" THEN fallback ELSE data.name]

\* FolderScreen.js lines 614-628, called again by handleRefresh (739-742)
\* and by the effect when the sort option changes (604-611).
fetchFolderDetails ==
    /\ Sends(Req("folder", "fetch"))
    /\ out' = DetailOut("fetchFolderDetails", "sent")
    /\ UNCHANGED <<folder, image, imageMounted>>
    /\ DetailFrame

\* FolderScreen.js lines 630-659: the folder response of fetchFolderDetails.
FolderFetched(data) ==
    /\ Settles(Req("folder", "fetch"))
    /\ IF data.present
       THEN /\ folder' = Named(data, "Unnamed Folder")
            /\ out' = DetailOut("fetchFolderDetails", "set")
       ELSE /\ out' = DetailOut("fetchFolderDetails", "threw")
            /\ UNCHANGED folder
    /\ UNCHANGED <<image, imageMounted>>
    /\ DetailFrame

\* FolderScreen.js lines 745-757: Save in the edit dialog.
handleEditFolder(editName) ==
    /\ folder.present
    /\ IF Trim(editName) = ""
       THEN /\ out' = DetailOut("handleEditFolder", "alert")
            /\ UNCHANGED requests
       ELSE /\ Sends(Req("folder", "edit"))
            /\ out' = DetailOut("handleEditFolder", "sent")
    /\ UNCHANGED <<folder, image, imageMounted>>
    /\ DetailFrame

\* FolderScreen.js lines 780-783.
FolderToggleFavorite ==
    /\ folder.present
    /\ Sends(Req("folder", "favorite"))
    /\ out' = DetailOut("handleToggleFavorite", "sent")
    /\ UNCHANGED <<folder, image, imageMounted>>
    /\ DetailFrame

\* FolderScreen.js lines 759-772 and 785-797: the response of an edit or a
\* toggle becomes the folder as it is.
FolderUpdated(fn, data) ==
    /\ fn \in {"edit", "favorite"}
    /\ Settles(Req("folder", fn))
    /\ IF data.present
       THEN /\ folder' = data
            /\ out' = DetailOut(fn, "set")
       ELSE /\ out' = DetailOut(fn, "threw")
            /\ UNCHANGED folder
    /\ UNCHANGED <<image, imageMounted>>
    /\ DetailFrame

\* ImageDetailScreen.js lines 321-331: fetchImageDetails, the later fetch.
fetchImageDetails ==
    /\ imageMounted
    /\ Sends(Req("image", "refetch"))
    /\ out' = DetailOut("fetchImageDetails", "sent")
    /\ UNCHANGED <<folder, image, imageMounted>>
    /\ DetailFrame

\* ImageDetailScreen.js lines 103-142 (the effect's fetchImage, which sets
\* state only while isMounted) and 333-357 (fetchImageDetails).
ImageFetched(fn, data) ==
    /\ fn \in {"fetch", "refetch"}
    /\ Settles(Req("image", fn))
    /\ IF data.present /\ imageMounted
       THEN /\ image' = Named(data, "Untitled Image")
            /\ out' = DetailOut(fn, "set")
       ELSE /\ out' = DetailOut(fn, IF data.present THEN "dropped" ELSE "threw")
            /\ UNCHANGED image
    /\ UNCHANGED <<folder, imageMounted>>
    /\ DetailFrame

\* ImageDetailScreen.js lines 163-176: Save in the edit dialog.
handleEditImage(editName) ==
    /\ imageMounted
    /\ image.present
    /\ IF Trim(editName) = ""
       THEN /\ out' = DetailOut("handleEditImage", "error")
            /\ UNCHANGED requests
       ELSE /\ Sends(Req("image", "edit"))
            /\ out' = DetailOut("handleEditImage", "sent")
    /\ UNCHANGED <<folder, image, imageMounted>>
    /\ DetailFrame

\* ImageDetailScreen.js lines 205-213.
ImageToggleFavorite ==
    /\ imageMounted
    /\ image.present
    /\ Sends(Req("image", "favorite"))
    /\ out' = DetailOut("handleToggleFavorite", "sent")
    /\ UNCHANGED <<folder, image, imageMounted>>
    /\ DetailFrame

\* ImageDetailScreen.js lines 180-196 and 215-231: the response of an edit
\* or a toggle becomes the image as it is (an unmounted screen keeps none).
ImageUpdated(fn, data) ==
    /\ fn \in {"edit", "favorite"}
    /\ Settles(Req("image", fn))
    /\ IF data.present /\ imageMounted
       THEN /\ image' = data
            /\ out' = DetailOut(fn, "set")
       ELSE /\ out' = DetailOut(fn, IF data.present THEN "dropped" ELSE "threw")
            /\ UNCHANGED image
    /\ UNCHANGED <<folder, imageMounted>>
    /\ DetailFrame

\* A request of either screen rejects: every catch block leaves the state.
DetailRequestFails(r) ==
    /\ Settles(r)
    /\ out' = DetailOut(r.fn, "failed")
    /\ UNCHANGED <<folder, image, imageMounted>>
    /\ DetailFrame

\* ImageDetailScreen.js lines 157-160: the effect's cleanup.
ImageUnmount ==
    /\ imageMounted
    /\ imageMounted' = FALSE
    /\ out' = DetailOut("unmount", "")
    /\ UNCHANGED <<folder, image, requests>>
    /\ DetailFrame

DetailNext ==
    \/ fetchFolderDetails
    \/ \E d \in Responses : FolderFetched(d)
    \/ \E n \in EditNames : handleEditFolder(n)
    \/ FolderToggleFavorite
    \/ \E fn \in {"edit", "favorite"}, d \in Responses : FolderUpdated(fn, d)
    \/ fetchImageDetails
    \/ \E fn \in {"fetch", "refetch"}, d \in Responses : ImageFetched(fn, d)
    \/ \E n \in EditNames : handleEditImage(n)
    \/ ImageToggleFavorite
    \/ \E fn \in {"edit", "favorite"}, d \in Responses : ImageUpdated(fn, d)
    \/ \E r \in BagToSet(requests) : DetailRequestFails(r)
    \/ ImageUnmount

DetailSpec == DetailInit /\ [][DetailNext]_vars

----------------------------------------------------------------------------
(* FoldersScreen (src/src/screens/trash/TrashScreen.js lines 1727-2316)    *)
(* with its CreateFolderDialog (lines 1603-1709): fetch, search and folder *)
(* creation.  A folder is its id; a search matches a folder by its id.     *)

FetchedLists == {<<>>, <<"a">>, <<"b", "a">>}   \* what getFolders answers with

NewFolderIds == {"n"}                            \* ids of created folders

CreateResponses == {"withId", "nestedId", "noId", "noData"}

Queries == {"", "a"}

ColorOptions == {DefaultColor, "#4CAF50"}

\* What the dialog's handleCreate passes on (lines 1634-1645): names that
\* are not blank.
DialogNames == {n \in EditNames : Trim(n) # ""}

MaxFolderCalls == 2      \* fetchFolders / handleCreateFolder calls in flight

MaxFolders == 3          \* folders listed (a create is answered below it)

FCall(fn, name) == [fn |-> fn, name |-> name]

ListOut(op, result, id) == [op |-> op, result |-> result, id |-> id]

NoTrashScreen ==
    /\ trashScreen = TrashScreenState
    /\ trashCalls = EmptyBag

\* The screen has mounted and its focus effect has called fetchFolders.
FoldersInit ==
    /\ foldersScreen = FoldersScreenState
    /\ folderCalls = SetToBag({FCall("fetch", "")})
    /\ out = ListOut("mount", "", "")
    /\ NoTrashScreen
    /\ SignedIn
    /\ CameraAbsent
    /\ NoDetailScreen

FoldersFrame == UNCHANGED <<cameraVars, authVars, detailVars, trashScreen, trashCalls>>

\* Line 2140: the list (with its pull-to-refresh) is rendered.
FoldersListShown == ~foldersScreen.loading \/ foldersScreen.refreshing

\* Lines 1753-1758 called by the focus effect (1798-1802).
FoldersFocus ==
    /\ BagCardinality(folderCalls) < MaxFolderCalls
    /\ foldersScreen' = [foldersScreen EXCEPT !.error = ""]
    /\ folderCalls' = folderCalls (+) SetToBag({FCall("fetch", "")})
    /\ out' = ListOut("fetchFolders", "sent", "")
    /\ FoldersFrame

\* Lines 1804-1807 with 1753-1758.
onRefresh ==
    /\ FoldersListShown
    /\ BagCardinality(folderCalls) < MaxFolderCalls
    /\ foldersScreen' = [foldersScreen EXCEPT !.refreshing = TRUE, !.error = ""]
    /\ folderCalls' = folderCalls (+) SetToBag({FCall("fetch", "")})
    /\ out' = ListOut("onRefresh", "sent", "")
    /\ FoldersFrame

\* Lines 1760-1788 and 1792-1795: getFolders answers with list.
FoldersFetched(list) ==
    /\ BagIn(FCall("fetch", ""), folderCalls)
    /\ folderCalls' = folderCalls (-) SetToBag({FCall("fetch", "")})
    /\ foldersScreen' = [foldersScreen EXCEPT !.folders = list, !.filteredFolders = list,
                                              !.loading = FALSE, !.refreshing = FALSE]
    /\ out' = ListOut("fetchFolders", "set", "")
    /\ FoldersFrame

\* Lines 1789-1795: getFolders rejects.
FoldersFetchFails ==
    /\ BagIn(FCall("fetch", ""), folderCalls)
    /\ folderCalls' = folderCalls (-) SetToBag({FCall("fetch", "")})
    /\ foldersScreen' = [foldersScreen EXCEPT
                            !.error = "Failed to load folders. Pull down to refresh.",
                            !.loading = FALSE, !.refreshing = FALSE]
    /\ out' = ListOut("fetchFolders", "failed", "")
    /\ FoldersFrame

\* Lines 1810-1827: the search, once its debounce has run.
handleSearch(query) ==
    /\ foldersScreen' =
          [foldersScreen EXCEPT !.filteredFolders =
              IF Trim(query) = "" THEN foldersScreen.folders
              ELSE SelectSeq(foldersScreen.folders, LAMBDA f : f = query)]
    /\ out' = ListOut("handleSearch", query, "")
    /\ UNCHANGED folderCalls
    /\ FoldersFrame

\* Lines 1916-1921: the add button.
handleOpenCreateDialog ==
    /\ foldersScreen' = [foldersScreen EXCEPT !.newFolderName = "",
                                              !.newFolderColor = DefaultColor,
                                              !.error = "",
                                              !.createDialogVisible = TRUE]
    /\ out' = ListOut("handleOpenCreateDialog", "", "")
    /\ UNCHANGED folderCalls
    /\ FoldersFrame

\* The dialog's colour buttons call setNewFolderColor.
setNewFolderColor(color) ==
    /\ foldersScreen.createDialogVisible
    /\ foldersScreen' = [foldersScreen EXCEPT !.newFolderColor = color]
    /\ out' = ListOut("setNewFolderColor", color, "")
    /\ UNCHANGED folderCalls
    /\ FoldersFrame

\* Lines 1628-1631: the dialog is dismissed holding the name localFolderName.
handleDismiss(localFolderName) ==
    /\ foldersScreen.createDialogVisible
    /\ foldersScreen' = [foldersScreen EXCEPT !.newFolderName = localFolderName,
                                              !.createDialogVisible = FALSE]
    /\ out' = ListOut("handleDismiss", "", "")
    /\ UNCHANGED folderCalls
    /\ FoldersFrame

\* Lines 1835-1859: handleCreateFolder up to the request.
handleCreateFolder(folderName) ==
    LET name == IF folderName # "" THEN folderName ELSE foldersScreen.newFolderName
    IN  /\ foldersScreen.createDialogVisible
        /\ IF Trim(name) = ""
           THEN /\ foldersScreen' =
                      [foldersScreen EXCEPT !.error = "Please enter a folder name"]
                /\ out' = ListOut("handleCreateFolder", "blank", "")
                /\ UNCHANGED folderCalls
           ELSE /\ BagCardinality(folderCalls) < MaxFolderCalls
                /\ foldersScreen' = [foldersScreen EXCEPT !.isCreatingFolder = TRUE,
                                                          !.createDialogVisible = FALSE,
                                                          !.loading = TRUE]
                /\ folderCalls' = folderCalls (+) SetToBag({FCall("create", Trim(name))})
                /\ out' = ListOut("handleCreateFolder", "sent", "")
        /\ FoldersFrame

\* FolderCreated that adds the new folder at the end of the lists.
FolderCreatedAppended(c, kind, id) ==
    /\ c.fn = "create"
    /\ BagIn(c, folderCalls)
    /\ Len(foldersScreen.folders) < MaxFolders
    /\ IF kind \in {"withId", "nestedId"}
       THEN /\ foldersScreen' =
                  [foldersScreen EXCEPT
                      !.folders = Append(@, id),
                      !.filteredFolders = Append(@, id),
                      !.newFolderName = "",
                      !.newFolderColor = DefaultColor,
                      !.error = "",
                      !.loading = FALSE,
                      !.isCreatingFolder = FALSE]
            /\ folderCalls' = folderCalls (-) SetToBag({c})
            /\ out' = ListOut("createFolder", "created", id)
       ELSE /\ foldersScreen' = [foldersScreen EXCEPT !.error = "",
                                                      !.loading = FALSE,
                                                      !.isCreatingFolder = FALSE]
            /\ folderCalls' = (folderCalls (-) SetToBag({c})) (+) SetToBag({FCall("fetch", "")})
            /\ out' = ListOut("createFolder", kind, "")
    /\ FoldersFrame

\* Lines 1861-1903 and 1909-1912: createFolder answers; a folder with an id
\* (directly or nested once more) is prepended and the form reset, otherwise
\* a warning is shown and fetchFolders called.
FolderCreated(c, kind, id) ==
    /\ c.fn = "create"
    /\ BagIn(c, folderCalls)
    /\ Len(foldersScreen.folders) < MaxFolders
    /\ IF kind \in {"withId", "nestedId"}
       THEN /\ foldersScreen' =
                  [foldersScreen EXCEPT
                      !.folders = <<id>> \o @,
                      !.filteredFolders = <<id>> \o @,
                      !.newFolderName = "",
                      !.newFolderColor = DefaultColor,
                      !.error = "",
                      !.loading = FALSE,
                      !.isCreatingFolder = FALSE]
            /\ folderCalls' = folderCalls (-) SetToBag({c})
            /\ out' = ListOut("createFolder", "created", id)
       ELSE /\ foldersScreen' = [foldersScreen EXCEPT !.error = "",
                                                      !.loading = FALSE,
                                                      !.isCreatingFolder = FALSE]
            /\ folderCalls' = (folderCalls (-) SetToBag({c})) (+) SetToBag({FCall("fetch", "")})
            /\ out' = ListOut("createFolder", kind, "")
    /\ FoldersFrame

\* Lines 1904-1912: createFolder rejects.
FolderCreateFails(c) ==
    /\ c.fn = "create"
    /\ BagIn(c, folderCalls)
    /\ folderCalls' = folderCalls (-) SetToBag({c})
    /\ foldersScreen' = [foldersScreen EXCEPT !.error = "Failed to create folder",
                                              !.createDialogVisible = TRUE,
                                              !.loading = FALSE,
                                              !.isCreatingFolder = FALSE]
    /\ out' = ListOut("createFolder", "failed", "")
    /\ FoldersFrame

FoldersNext ==
    \/ FoldersFocus
    \/ onRefresh
    \/ \E list \in FetchedLists : FoldersFetched(list)
    \/ FoldersFetchFails
    \/ \E q \in Queries : handleSearch(q)
    \/ handleOpenCreateDialog
    \/ \E color \in ColorOptions : setNewFolderColor(color)
    \/ \E n \in EditNames : handleDismiss(n)
    \/ \E n \in DialogNames : handleCreateFolder(n)
    \/ \E c \in BagToSet(folderCalls), k \in CreateResponses, id \in NewFolderIds :
          FolderCreated(c, k, id)
    \/ \E c \in BagToSet(folderCalls) : FolderCreateFails(c)

FoldersSpec == FoldersInit /\ [][FoldersNext]_vars

----------------------------------------------------------------------------
(* TrashScreen (src/src/screens/trash/TrashScreen.js lines 125-539): the   *)
(* fetch of the trashed items and the restore, delete and empty-trash      *)
(* handlers.  A trashed item is its id and a list is the set of its items; *)
(* the error null is "".  A handler reads trashedFolders and trashedImages *)
(* from the render that created it, so a call carries, as seen, the two    *)
(* lists of the moment it was made.                                        *)

TrashedFolderIds == {"f1", "f2"}

TrashedImageIds == {"i1"}

TrashedFolderLists == {{}, {"f1", "f2"}}   \* what getTrashedFolders answers with

TrashedImageLists == {{}, {"i1"}}    \* what getTrashedImages answers with

TrashFetchStatuses == {404, 500}                   \* 500 stands for every failure but 404

MaxTrashCalls == 2       \* fetches, handlers and open alerts at a time

Seen == [folders |-> trashScreen.trashedFolders, images |-> trashScreen.trashedImages]

TCall(fn, pc, id, seen) == [fn |-> fn, pc |-> pc, id |-> id, seen |-> seen]

TrashOut(op, result, id, seen, got) ==
    [op |-> op, result |-> result, id |-> id, seen |-> seen, got |-> got]

NoFoldersScreen ==
    /\ foldersScreen = FoldersScreenState
    /\ folderCalls = EmptyBag

\* The screen has mounted and its focus effect has called fetchTrashedItems.
TrashInit ==
    /\ trashScreen = TrashScreenState
    /\ trashCalls = SetToBag({TCall("fetchTrashedItems", "folders", "", Seen)})
    /\ out = TrashOut("mount", "", "", Seen, {})
    /\ NoFoldersScreen
    /\ SignedIn
    /\ CameraAbsent
    /\ NoDetailScreen

TrashFrame == UNCHANGED <<cameraVars, authVars, detailVars, foldersScreen, folderCalls>>

\* Line 473: the spinner is not in place of the screen's content.
TrashContentShown == ~trashScreen.loading \/ trashScreen.refreshing

\* Lines 480-518: the lists are rendered (neither spinner nor error state).
TrashListsShown == TrashContentShown /\ trashScreen.error = ""

\* A confirmation alert (lines 204, 261, 317) is modal.
NoAlertOpen == \A c \in BagToSet(trashCalls) : c.pc # "confirm"

TrashCallsBelowMax == BagCardinality(trashCalls) < MaxTrashCalls

\* Lines 138-140: fetchTrashedItems up to its first await.
TrashFetchStarts(op, refreshing) ==
    /\ TrashCallsBelowMax
    /\ trashScreen' = [trashScreen EXCEPT !.loading = TRUE, !.error = "",
                                          !.refreshing = refreshing]
    /\ trashCalls' = trashCalls (+) SetToBag({TCall("fetchTrashedItems", "folders", "", Seen)})
    /\ out' = TrashOut(op, "sent", "", Seen, {})
    /\ TrashFrame

\* Lines 190-194: the screen comes into focus again.
TrashFocus == TrashFetchStarts("focus", trashScreen.refreshing)

\* Lines 197-200, from the RefreshControl of a list that is not empty
\* (lines 483-517).
TrashOnRefresh ==
    /\ TrashListsShown
    /\ NoAlertOpen
    /\ trashScreen.trashedFolders # {} \/ trashScreen.trashedImages # {}
    /\ TrashFetchStarts("onRefresh", TRUE)

\* Lines 397-400: Try Again on the error state.
TrashRetry ==
    /\ TrashContentShown
    /\ trashScreen.error # ""
    /\ NoAlertOpen
    /\ TrashFetchStarts("retry", trashScreen.refreshing)

\* Lines 144-155: getTrashedFolders answers with list.
TrashedFoldersFetched(c, list) ==
    /\ c.fn = "fetchTrashedItems" /\ c.pc = "folders"
    /\ BagIn(c, trashCalls)
    /\ trashScreen' = [trashScreen EXCEPT !.trashedFolders = list]
    /\ trashCalls' = (trashCalls (-) SetToBag({c})) (+) SetToBag({[c EXCEPT !.pc = "images"]})
    /\ out' = TrashOut("fetchTrashedItems", "folders", "", c.seen, list)
    /\ TrashFrame

\* Lines 158-169 and 183-186: getTrashedImages answers with list.
TrashedImagesFetched(c, list) ==
    /\ c.fn = "fetchTrashedItems" /\ c.pc = "images"
    /\ BagIn(c, trashCalls)
    /\ trashScreen' = [trashScreen EXCEPT !.trashedImages = list,
                                          !.loading = FALSE, !.refreshing = FALSE]
    /\ trashCalls' = trashCalls (-) SetToBag({c})
    /\ out' = TrashOut("fetchTrashedItems", "images", "", c.seen, list)
    /\ TrashFrame

\* TrashFetchFails without the 404 case.
TrashFetchFailsNo404(c, status) ==
    /\ c.fn = "fetchTrashedItems"
    /\ BagIn(c, trashCalls)
    /\ trashScreen' =
          [trashScreen EXCEPT !.error = "Failed to load trashed items. Pull down to retry.",
                              !.loading = FALSE, !.refreshing = FALSE]
    /\ trashCalls' = trashCalls (-) SetToBag({c})
    /\ out' = TrashOut("fetchTrashedItems",
                       IF status = 404 THEN "notFound" ELSE "failed", "", c.seen, {})
    /\ TrashFrame

\* Lines 170-186: either fetch rejects with HTTP status.
TrashFetchFails(c, status) ==
    /\ c.fn = "fetchTrashedItems"
    /\ BagIn(c, trashCalls)
    /\ trashScreen' =
          IF status = 404
          THEN [trashScreen EXCEPT !.trashedFolders = {}, !.trashedImages = {},
                                   !.loading = FALSE, !.refreshing = FALSE]
          ELSE [trashScreen EXCEPT
                   !.error = "Failed to load trashed items. Pull down to retry.",
                   !.loading = FALSE, !.refreshing = FALSE]
    /\ trashCalls' = trashCalls (-) SetToBag({c})
    /\ out' = TrashOut("fetchTrashedItems",
                       IF status = 404 THEN "notFound" ELSE "failed", "", c.seen, {})
    /\ TrashFrame

\* A handler or an alert's onPress up to its await: setLoading(true) and
\* the request (lines 241-245, 273-277, 297-301).
TrashRequestSent(fn, id, seen) ==
    /\ trashScreen' = [trashScreen EXCEPT !.loading = TRUE]
    /\ out' = TrashOut(fn, "sent", id, seen, {})

\* Lines 240-245, from a folder card (lines 352-358).
handleRestoreFolder(id) ==
    /\ TrashListsShown
    /\ NoAlertOpen
    /\ id \in trashScreen.trashedFolders
    /\ TrashCallsBelowMax
    /\ TrashRequestSent("restoreFolder", id, Seen)
    /\ trashCalls' = trashCalls (+) SetToBag({TCall("restoreFolder", "await", id, Seen)})
    /\ TrashFrame

\* Lines 296-301, from an image card (lines 361-367).
handleRestoreImage(id) ==
    /\ TrashListsShown
    /\ NoAlertOpen
    /\ id \in trashScreen.trashedImages
    /\ TrashCallsBelowMax
    /\ TrashRequestSent("restoreImage", id, Seen)
    /\ trashCalls' = trashCalls (+) SetToBag({TCall("restoreImage", "await", id, Seen)})
    /\ TrashFrame

\* A handler that only opens its confirmation alert.
TrashAsks(fn, id) ==
    /\ NoAlertOpen
    /\ TrashCallsBelowMax
    /\ trashCalls' = trashCalls (+) SetToBag({TCall(fn, "confirm", id, Seen)})
    /\ out' = TrashOut(fn, "asked", id, Seen, {})
    /\ UNCHANGED trashScreen
    /\ TrashFrame

\* Lines 260-271 and 290-293.
handleDeleteFolder(id) ==
    /\ TrashListsShown
    /\ id \in trashScreen.trashedFolders
    /\ TrashAsks("deleteFolder", id)

\* Lines 316-327 and 346-349.
handleDeleteImage(id) ==
    /\ TrashListsShown
    /\ id \in trashScreen.trashedImages
    /\ TrashAsks("deleteImage", id)

\* Lines 203-214 and 234-237, from the menu (lines 421-429) or the button
\* under a list (lines 520-536).
handleEmptyTrash == TrashAsks("emptyTrash", "")

\* The alert's Cancel button (lines 208-211, 265-268, 321-324).
AlertCancel(c) ==
    /\ c.pc = "confirm"
    /\ BagIn(c, trashCalls)
    /\ trashCalls' = trashCalls (-) SetToBag({c})
    /\ out' = TrashOut(c.fn, "cancelled", c.id, c.seen, {})
    /\ UNCHANGED trashScreen
    /\ TrashFrame

\* Lines 272-277: Delete is pressed on the folder alert.
DeleteFolderConfirm(c) ==
    /\ c.fn = "deleteFolder" /\ c.pc = "confirm"
    /\ BagIn(c, trashCalls)
    /\ TrashRequestSent(c.fn, c.id, c.seen)
    /\ trashCalls' = (trashCalls (-) SetToBag({c})) (+) SetToBag({[c EXCEPT !.pc = "await"]})
    /\ TrashFrame

\* The call of a function its module does not export throws inside the
\* try, so the onPress runs through its catch and finally at once:
\* folderApi.emptyTrash (lines 215-232; src/src/services/api/folders.js has
\* no emptyTrash) and imageApi.forceDeleteImage (lines 328-344; the images
\* module exports permanentlyDeleteImage).
MissingApiConfirm(c) ==
    /\ c.fn \in {"emptyTrash", "deleteImage"} /\ c.pc = "confirm"
    /\ BagIn(c, trashCalls)
    /\ trashScreen' = [trashScreen EXCEPT !.loading = FALSE]
    /\ trashCalls' = trashCalls (-) SetToBag({c})
    /\ out' = TrashOut(c.fn, "failed", c.id, c.seen, {})
    /\ TrashFrame

\* Lines 247-250 and 254-256, 279-282 and 286-288, 303-306 and 310-312: the
\* request resolves and the list the handler saw, without the item, is set.
TrashRequestDone(c) ==
    /\ c.fn \in {"restoreFolder", "deleteFolder", "restoreImage"} /\ c.pc = "await"
    /\ BagIn(c, trashCalls)
    /\ trashScreen' =
          IF c.fn = "restoreImage"
          THEN [trashScreen EXCEPT !.trashedImages = c.seen.images \ {c.id},
                                   !.loading = FALSE]
          ELSE [trashScreen EXCEPT !.trashedFolders = c.seen.folders \ {c.id},
                                   !.loading = FALSE]
    /\ trashCalls' = trashCalls (-) SetToBag({c})
    /\ out' = TrashOut(c.fn, "done", c.id, c.seen, {})
    /\ TrashFrame

\* Lines 251-256, 283-288, 307-312: the request rejects.
TrashRequestFails(c) ==
    /\ c.fn \in {"restoreFolder", "deleteFolder", "restoreImage"} /\ c.pc = "await"
    /\ BagIn(c, trashCalls)
    /\ trashScreen' = [trashScreen EXCEPT !.loading = FALSE]
    /\ trashCalls' = trashCalls (-) SetToBag({c})
    /\ out' = TrashOut(c.fn, "failed", c.id, c.seen, {})
    /\ TrashFrame

TrashNext ==
    \/ TrashFocus
    \/ TrashOnRefresh
    \/ TrashRetry
    \/ \E c \in BagToSet(trashCalls), list \in TrashedFolderLists : TrashedFoldersFetched(c, list)
    \/ \E c \in BagToSet(trashCalls), list \in TrashedImageLists : TrashedImagesFetched(c, list)
    \/ \E c \in BagToSet(trashCalls), st \in TrashFetchStatuses : TrashFetchFails(c, st)
    \/ \E id \in TrashedFolderIds : handleRestoreFolder(id)
    \/ \E id \in TrashedImageIds : handleRestoreImage(id)
    \/ \E id \in TrashedFolderIds : handleDeleteFolder(id)
    \/ \E id \in TrashedImageIds : handleDeleteImage(id)
    \/ handleEmptyTrash
    \/ \E c \in BagToSet(trashCalls) : AlertCancel(c)
    \/ \E c \in BagToSet(trashCalls) : DeleteFolderConfirm(c)
    \/ \E c \in BagToSet(trashCalls) : MissingApiConfirm(c)
    \/ \E c \in BagToSet(trashCalls) : TrashRequestDone(c)
    \/ \E c \in BagToSet(trashCalls) : TrashRequestFails(c)

TrashSpec == TrashInit /\ [][TrashNext]_vars

----------------------------------------------------------------------------
(* Properties                                                              *)

AnyFlag == isNavigating \/ loading \/ processingImage

AllClear == ~isNavigating /\ ~loading /\ ~processingImage /\ ~uploadingRef

\* C1: invoking uploadImage while an earlier upload request of the instance
\* has not resolved is a no-op: no second request, no flag or state change,
\* no alert, no navigation.
C1_SecondUploadIsNoOp ==
    [][(out'.op = "uploadImage" /\ uploads # EmptyBag)
         => /\ uploads' = uploads
            /\ UNCHANGED <<capturedImage, loading, processingImage, isNavigating,
                           uploadingRef, timer>>
            /\ out'.alerts = <<>>
            /\ out'.nav = "none"]_vars

\* C2: while a capture or pick operation is in flight (picker launched and
\* unresolved, or its image still being processed), a further takePicture or
\* pickImage launches no other picker.
C2_SecondCaptureLaunchesNothing ==
    [][(out'.op \in {"takePicture", "pickImage"} /\ CapturesInFlight > 0)
         => pickers' = pickers]_vars

C4_UploadFailureRestoresPreview ==
    [][(out'.op = "uploadReject" /\ mounted)
         => /\ ~loading' /\ ~isNavigating' /\ ~processingImage' /\ ~uploadingRef'
            /\ capturedImage' = out'.asset
            /\ out'.alerts = <<IF out'.num = 413 THEN "Image Too Large" ELSE "Upload Failed">>
            /\ out'.nav = "none"
            /\ BagCardinality(uploads') = BagCardinality(uploads) - 1]_vars

\* C5: when the resize operation throws while the screen is mounted,
\* processImage returns null, processingImage is false, one 'Failed to
\* process image' alert is shown, capturedImage is unchanged, and neither
\* the resize operation nor an upload is started.
C5_ProcessFailureAborts ==
    [][(out'.op = "manipReject" /\ mounted)
         => /\ IsNull(out'.ret)
            /\ ~processingImage'
            /\ out'.alerts = <<"Failed to process image">>
            /\ capturedImage' = capturedImage
            /\ BagCardinality(manips') = BagCardinality(manips) - 1
            /\ uploads' = uploads]_vars

C5_Witness ==
    /\ out.op = "manipReject"
    /\ mounted
    /\ out.alerts = <<"Failed to process image">>
    /\ IsNull(capturedImage)
    /\ ~processingImage

\* C6: an asset whose fileSize is known and below 1,900,000 bytes is returned
\* as it is, whatever its dimensions: the resize operation is not invoked and
\* processingImage is false on return.
C6_SmallAssetReturnedUnchanged ==
    [][(/\ out'.op \in {"assets", "legacy"}
        /\ mounted
        /\ out'.asset.fileSize # 0
        /\ out'.asset.fileSize < 1900000)
         => /\ out'.ret = out'.asset
            /\ manips' = manips
            /\ ~processingImage']_vars

C6_Witness ==
    /\ out.op = "assets"
    /\ mounted
    /\ out.asset.fileSize = 1899999
    /\ out.asset.width = 4032
    /\ out.ret = out.asset
    /\ capturedImage = out.asset
    /\ manips = EmptyBag

C8_LandscapeDims ==
    \A m \in BagToSet(manips) :
        (m.src.height > 0 /\ m.src.width > m.src.height /\ m.src.width > 1200)
            => /\ m.width = 1200
               /\ 2 * m.height * m.src.width - m.src.width <= 2400 * m.src.height
               /\ 2400 * m.src.height < 2 * m.height * m.src.width + m.src.width

C8_Witness ==
    \E m \in BagToSet(manips) :
        /\ m.src.width = 4032
        /\ m.src.height = 2401
        /\ m.width = 1200
        /\ m.height = 715

\* C9: for an asset on the resize path, its dimensions present, with
\* height >= width and height > 1200, the height passed to the resize operation is 1200 and the
\* width is width * 1200 / height rounded to the nearest integer (halves up).
C9_PortraitDims ==
    \A m \in BagToSet(manips) :
        (m.src.width > 0 /\ m.src.height >= m.src.width /\ m.src.height > 1200)
            => /\ m.height = 1200
               /\ 2 * m.width * m.src.height - m.src.height <= 2400 * m.src.width
               /\ 2400 * m.src.width < 2 * m.width * m.src.height + m.src.height

C9_Witness ==
    \E m \in BagToSet(manips) :
        /\ m.src.width = 2400
        /\ m.src.height = 2400
        /\ m.width = 1200
        /\ m.height = 1200

\* C10: when the safety timer fires while an upload request is outstanding,
\* only the flags and the timer handle change: capturedImage and the
\* outstanding requests are as before; and a request that resolves while the
\* screen is mounted navigates on success and, on failure, shows one alert
\* and resets the flags.
C10_TimerLeavesRequests ==
    [][/\ (out'.op = "timer" /\ uploads # EmptyBag)
           => /\ uploads' = uploads
              /\ UNCHANGED <<capturedImage, mounted, focused, folderId, perm,
                             pickers, manips>>
              /\ out'.alerts = <<>> /\ out'.nav = "none"
       /\ (out'.op = "uploadResolve" /\ mounted)
           => out'.nav = "replace" /\ isNavigating'
       /\ (out'.op = "uploadReject" /\ mounted)
           => Len(out'.alerts) = 1 /\ ~loading' /\ ~uploadingRef' /\ ~isNavigating'
      ]_vars

C10_Witness ==
    /\ out.op = "timer"
    /\ uploads # EmptyBag
    /\ ~loading
    /\ ~uploadingRef
    /\ ~IsNull(capturedImage)

\* C11: one screen instance issues at most one navigation action
\* (navigation.replace or navigation.goBack) from uploadImage,
\* handleCaptureCancel and handleNavigateBack together: once a navigation
\* has been issued and isNavigating is set, no second navigation is issued.
C11_NoSecondNavigation ==
    [][(navigations >= 1 /\ isNavigating)
         => ~(out'.nav # "none" /\ out'.op # "permissionOK")]_vars

\* C13: on the resize path the quality is 0.5 when fileSize > 5,000,000,
\* 0.6 when 3,000,000 < fileSize <= 5,000,000 and 0.7 otherwise; an asset of
\* unknown fileSize takes the resize path (it is not returned unchanged).
C13_QualityTiers ==
    /\ \A m \in BagToSet(manips) :
          m.quality = IF m.src.fileSize > 5000000 THEN 50
                      ELSE IF m.src.fileSize > 3000000 THEN 60
                      ELSE 70
    /\ (out.op \in {"assets", "legacy"} /\ mounted /\ out.asset.fileSize = 0)
          => /\ IsNull(out.ret)
             /\ \E m \in BagToSet(manips) : m.src = out.asset /\ m.quality = 70

C13_Witness ==
    /\ out.op = "assets"
    /\ out.asset.fileSize = 5000000
    /\ \E m \in BagToSet(manips) : m.src = out.asset /\ m.quality = 60

\* C14: for every asset on the resize path both dimensions passed to the
\* resize operation are at most 1200; a missing width or height counts as
\* 1000; when neither dimension exceeds 1200 they are passed unchanged.
C14_DimensionBound ==
    \A m \in BagToSet(manips) :
        LET w == IF m.src.width = 0 THEN 1000 ELSE m.src.width
            h == IF m.src.height = 0 THEN 1000 ELSE m.src.height
        IN  /\ m.width <= 1200
            /\ m.height <= 1200
            /\ (w <= 1200 /\ h <= 1200) => (m.width = w /\ m.height = h)

C14_Witness ==
    \E m \in BagToSet(manips) :
        /\ m.src.width = 0
        /\ m.src.height = 4032
        /\ m.width = 298
        /\ m.height = 1200

\* C16: an upload request is sent only by uploadImage, only for a non-null
\* capturedImage, with folderId present and no operation flag set; when
\* capturedImage is null or folderId is missing uploadImage shows one alert,
\* sends nothing and leaves loading and uploadingRef; every request in
\* flight carries a non-null asset.
C16_UploadPreconditions ==
    [][/\ BagCardinality(uploads') > BagCardinality(uploads)
           => /\ out'.op = "uploadImage"
              /\ ~IsNull(capturedImage)
              /\ folderId
              /\ ~(loading \/ processingImage \/ isNavigating \/ uploadingRef)
              /\ uploads' = uploads (+) SetToBag({capturedImage})
       /\ (out'.op = "uploadImage" /\ (IsNull(capturedImage) \/ ~folderId))
           => /\ Len(out'.alerts) = 1
              /\ uploads' = uploads
              /\ loading' = loading
              /\ uploadingRef' = uploadingRef
       /\ \A a \in BagToSet(uploads') : ~IsNull(a)
      ]_vars

C16_Witness ==
    /\ out.op = "uploadImage"
    /\ ~folderId
    /\ out.alerts = <<"Folder ID is missing. Cannot upload image.">>
    /\ uploads = EmptyBag
    /\ ~loading
    /\ ~uploadingRef

\* C17: a hardware back press while loading, processingImage, uploadingRef
\* or isNavigating is set navigates nowhere and changes no state; otherwise
\* it cancels the capture when capturedImage is set (replace to FolderDetail
\* with a folderId, else the image is cleared) and navigates back when it is
\* not; default back navigation never runs.
C17_HardwareBack ==
    [][out'.op = "hardwareBack"
         => /\ out'.nav # "default"
            /\ IF loading \/ processingImage \/ uploadingRef \/ isNavigating
               THEN /\ out'.nav = "none"
                    /\ UNCHANGED <<capturedImage, loading, processingImage, isNavigating,
                                   uploadingRef, timer, mounted, focused, folderId, perm,
                                   pickers, manips, uploads, navigations>>
               ELSE IF ~IsNull(capturedImage)
               THEN IF folderId
                    THEN out'.nav = "replace" /\ isNavigating' /\ capturedImage' = capturedImage
                    ELSE out'.nav = "none" /\ IsNull(capturedImage') /\ ~isNavigating'
               ELSE /\ out'.nav = (IF folderId THEN "replace" ELSE "goBack")
                    /\ isNavigating'
                    /\ IsNull(capturedImage')]_vars

C17_Witness ==
    /\ out.op = "hardwareBack"
    /\ out.nav = "none"
    /\ AllClear
    /\ ~folderId
    /\ IsNull(capturedImage)
    /\ mounted

\* C12: every request the interceptor hands on carries Authorization:
\* Bearer <token> for the token the secure storage holds when the
\* interceptor reads it, and no Authorization header when it holds none.
C12_BearerHeader ==
    [][out'.op = "request"
         => out'.authorization =
               IF secureToken = "" THEN "" ELSE "Bearer " \o secureToken]_vars

C12_Witness ==
    /\ out.op = "request"
    /\ out.result = "logout"
    /\ out.authorization = "Bearer t2"
    /\ secureToken = "t2"

\* C18: when handleLogout returns user is null, the in-memory token is null
\* and no token is in secure storage, whether the logout request succeeded
\* or failed; the logout request is made only when the in-memory token is
\* set.
C18_LogoutClears ==
    [][/\ (out'.op = "logout" /\ out'.result = "returned")
           => (user' = "" /\ token' = "" /\ secureToken' = "")
       /\ (\E c \in BagToSet(calls') :
              /\ c.op = "logout"
              /\ c.pc = "interceptor"
              /\ CopiesIn(c, calls') > CopiesIn(c, calls))
           => token # ""
      ]_vars

\* C19: when handleLogin or handleRegister throws, user, the in-memory
\* token and the stored token are what they were when it was called; when it
\* returns, user and token are the response's and that token is stored.
C19_LoginAllOrNothing ==
    [][\A c \in BagToSet(calls) :
          (c.op \in {"login", "register"} /\ CopiesIn(c, calls') < CopiesIn(c, calls))
             => /\ out'.result = "threw"
                    => <<user', token', secureToken'>> = c.was
                /\ out'.result = "returned"
                    => (user' = c.usr /\ token' = c.tok /\ secureToken' = c.tok)
      ]_vars

\* C20: loading eventually becomes false; nothing is rendered while loading
\* is true or the first-launch check is unresolved; afterwards Main is shown
\* iff user is non-null, Onboarding only with user null after a check that
\* found the key absent, Auth otherwise; a failed user fetch leaves user null.
C20_StartupGating ==
    /\ <>(~authLoading)
    /\ []((authLoading \/ isFirstLaunch = "null") => AppScreen = "none")
    /\ [](~(authLoading \/ isFirstLaunch = "null")
            => /\ AppScreen \in {"Main", "Onboarding", "Auth"}
               /\ AppScreen = "Main" <=> user # ""
               /\ AppScreen = "Onboarding" => (user = "" /\ isFirstLaunch = "true"))
    /\ [][(isFirstLaunch' = "true" /\ isFirstLaunch # "true") => ~alreadyLaunched]_vars
    /\ [][(out'.op = "loadStoredToken" /\ out'.result = "userFetchFailed")
            => (user' = "" /\ ~authLoading')]_vars

C20_Witness ==
    /\ out.op = "loadStoredToken"
    /\ out.result = "userFetchFailed"
    /\ ~authLoading
    /\ user = ""
    /\ token = "t1"
    /\ isFirstLaunch = "false"
    /\ AppScreen = "Auth"

\* C15: the folder held by FolderDetailScreen and the image held by
\* ImageDetailScreen always have a non-empty name, over any sequence of
\* fetch, edit and toggle-favorite operations.
C15_NamesNonEmpty ==
    /\ folder.present => folder.name # ""
    /\ image.present => image.name # ""

\* C24: when the picker resolves with null, a canceled result or an empty
\* assets array, processImage returns null, processingImage and the other
\* flags stay, no resize is started and no alert shown, and capturedImage
\* is left as it was.
C24_CancelledPickerIsQuiet ==
    [][out'.op \in {"null", "canceled", "empty"}
         => /\ IsNull(out'.ret)
            /\ out'.alerts = <<>>
            /\ out'.nav = "none"
            /\ UNCHANGED <<capturedImage, processingImage, loading, isNavigating,
                           uploadingRef, manips, uploads>>]_vars

C24_Witness ==
    /\ out.op = "empty"
    /\ mounted
    /\ processingImage
    /\ IsNull(capturedImage)
    /\ BagCardinality(manips) = 1

\* C25: for every asset on the resize path with positive width and height
\* both dimensions passed to the resize operation are at least 1.
C25_DimensionsPositive ==
    \A m \in BagToSet(manips) :
        (m.src.width > 0 /\ m.src.height > 0) => (m.width >= 1 /\ m.height >= 1)

\* C26: processingImage and loading are never both true, and capturedImage
\* is not replaced by another asset while an upload request is outstanding.
C26_PhaseExclusivity ==
    /\ [](~(processingImage /\ loading))
    /\ [][(uploads # EmptyBag /\ ~IsNull(capturedImage'))
            => capturedImage' = capturedImage]_vars

\* C21: handleCreateFolder with a blank name sets the error 'Please enter a
\* folder name' and sends nothing; a created folder with an id is prepended
\* to folders and filteredFolders and the form is reset; on failure both
\* lists stay, the error is 'Failed to create folder' and the dialog is
\* visible again; loading and isCreatingFolder are false when it finishes.
C21_CreateFolder ==
    [][/\ (out'.op = "handleCreateFolder" /\ out'.result = "blank")
           => /\ foldersScreen'.error = "Please enter a folder name"
              /\ folderCalls' = folderCalls
              /\ ~foldersScreen'.loading
              /\ ~foldersScreen'.isCreatingFolder
       /\ (out'.op = "handleCreateFolder" /\ out'.result = "sent")
           => /\ foldersScreen'.folders = foldersScreen.folders
              /\ foldersScreen'.filteredFolders = foldersScreen.filteredFolders
       /\ (out'.op = "createFolder" /\ out'.result = "created")
           => /\ foldersScreen'.folders = <<out'.id>> \o foldersScreen.folders
              /\ foldersScreen'.filteredFolders = <<out'.id>> \o foldersScreen.filteredFolders
              /\ foldersScreen'.newFolderName = ""
              /\ foldersScreen'.newFolderColor = "#FFC107"
              /\ foldersScreen'.error = ""
       /\ (out'.op = "createFolder" /\ out'.result = "failed")
           => /\ foldersScreen'.folders = foldersScreen.folders
              /\ foldersScreen'.filteredFolders = foldersScreen.filteredFolders
              /\ foldersScreen'.error = "Failed to create folder"
              /\ foldersScreen'.createDialogVisible
       /\ out'.op = "createFolder"
           => /\ ~foldersScreen'.loading
              /\ ~foldersScreen'.isCreatingFolder
      ]_vars

C21_Witness ==
    /\ out.op = "createFolder"
    /\ out.result = "created"
    /\ foldersScreen.folders = <<"n", "b", "a">>
    /\ foldersScreen.filteredFolders = <<"n", "a">>
    /\ ~foldersScreen.loading

\* C22: a successful restore or permanent delete of an item removes exactly
\* that item from its own list and leaves the other list, whatever else is
\* in flight; a successful empty-trash leaves both lists empty; a failed
\* call leaves both lists; loading is false once a handler finishes.
C22_TrashMutations ==
    [][/\ (out'.op \in {"restoreFolder", "deleteFolder"} /\ out'.result = "done")
           => /\ trashScreen'.trashedFolders = trashScreen.trashedFolders \ {out'.id}
              /\ trashScreen'.trashedImages = trashScreen.trashedImages
       /\ (out'.op \in {"restoreImage", "deleteImage"} /\ out'.result = "done")
           => /\ trashScreen'.trashedImages = trashScreen.trashedImages \ {out'.id}
              /\ trashScreen'.trashedFolders = trashScreen.trashedFolders
       /\ (out'.op = "emptyTrash" /\ out'.result = "done")
           => /\ trashScreen'.trashedFolders = {}
              /\ trashScreen'.trashedImages = {}
       /\ (out'.op \in {"restoreFolder", "deleteFolder", "restoreImage",
                        "deleteImage", "emptyTrash"} /\ out'.result = "failed")
           => /\ trashScreen'.trashedFolders = trashScreen.trashedFolders
              /\ trashScreen'.trashedImages = trashScreen.trashedImages
       /\ (out'.op \in {"restoreFolder", "deleteFolder", "restoreImage",
                        "deleteImage", "emptyTrash"} /\ out'.result \in {"done", "failed"})
           => ~trashScreen'.loading
      ]_vars

\* C23 as stated: a 404 empties both lists with the error null, any other
\* failure sets the error and leaves both lists as they were when the fetch
\* was called, and loading and refreshing are false after every fetch.
C23_ListsAsBeforeTheFetch ==
    [][/\ (out'.op = "fetchTrashedItems" /\ out'.result = "notFound")
           => /\ trashScreen'.trashedFolders = {}
              /\ trashScreen'.trashedImages = {}
              /\ trashScreen'.error = ""
       /\ (out'.op = "fetchTrashedItems" /\ out'.result = "failed")
           => /\ trashScreen'.error = "Failed to load trashed items. Pull down to retry."
              /\ trashScreen'.trashedFolders = out'.seen.folders
              /\ trashScreen'.trashedImages = out'.seen.images
       /\ (out'.op = "fetchTrashedItems" /\ out'.result \in {"notFound", "failed", "images"})
           => /\ ~trashScreen'.loading
              /\ ~trashScreen'.refreshing
      ]_vars

\* C23, amended: a 404 empties both lists and does not touch the error; any
\* other failure sets the error and changes neither list, so a folders list
\* already fetched stays as fetched; a fetched list is set as fetched;
\* loading and refreshing are false after every fetch.
C23_FetchErrorHandling ==
    [][/\ (out'.op = "fetchTrashedItems" /\ out'.result = "notFound")
           => /\ trashScreen'.trashedFolders = {}
              /\ trashScreen'.trashedImages = {}
              /\ trashScreen'.error = trashScreen.error
       /\ (out'.op = "fetchTrashedItems" /\ out'.result = "failed")
           => /\ trashScreen'.error = "Failed to load trashed items. Pull down to retry."
              /\ trashScreen'.trashedFolders = trashScreen.trashedFolders
              /\ trashScreen'.trashedImages = trashScreen.trashedImages
       /\ (out'.op = "fetchTrashedItems" /\ out'.result = "folders")
           => /\ trashScreen'.trashedFolders = out'.got
              /\ trashScreen'.trashedImages = trashScreen.trashedImages
       /\ (out'.op = "fetchTrashedItems" /\ out'.result = "images")
           => /\ trashScreen'.trashedImages = out'.got
              /\ trashScreen'.trashedFolders = trashScreen.trashedFolders
       /\ (out'.op = "fetchTrashedItems" /\ out'.result \in {"notFound", "failed", "images"})
           => /\ ~trashScreen'.loading
              /\ ~trashScreen'.refreshing
      ]_vars

\* The images fetch has failed after the folders fetch had replaced an empty
\* folders list.
C23_Witness ==
    /\ out.op = "fetchTrashedItems"
    /\ out.result = "failed"
    /\ out.seen.folders = {}
    /\ trashScreen.trashedFolders = {"f1", "f2"}
    /\ trashScreen.error # ""
    /\ ~trashScreen.loading

====
